---- MODULE Spec2Model ----
(***************************************************************************)
(* Model of the bskatar avatar editor (src/unnamed/part_000) and of the    *)
(* bskyplace world (src/bskyplace/src/main.ts): the avatar configuration,  *)
(* the feature generators and the assembler, the record codec and the      *)
(* asynchronous save / load against the external record store.             *)
(*                                                                         *)
(* JavaScript values are written as strings: a JS string is itself, and    *)
(* the non-string values are the tokens "<undefined>", "<null>", "<true>", *)
(* "<false>" and "<0>".  Lengths and angles are in thousandths (0.35 is    *)
(* 350, Math.PI is 3142); segment counts are plain integers.               *)
(***************************************************************************)
EXTENDS Integers, Sequences, FiniteSets, TLC

\* ------------------------------------------------------------ JS values
Undefined == "<undefined>"
Null == "<null>"
JSTrue == "<true>"
JSFalse == "<false>"
JSZero == "<0>"

\* The values JavaScript's || treats as false.
Falsy(v) == v \in {Undefined, Null, JSFalse, JSZero, ""}

\* a || b
Or(a, b) == IF Falsy(a) THEN b ELSE a

\* a ?? b
Nullish(a, b) == IF a \in {Undefined, Null} THEN b ELSE a

\* A property read: a key the object does not have reads as undefined.
Get(obj, k) == IF k \in DOMAIN obj THEN obj[k] ELSE Undefined

\* ------------------------------------------------------------ bounds
\* Clicks of the user in a run: on a style button, a swatch, the blush toggle,
\* the login, logout, save and load buttons, the refresh token.
MaxClicks == 3
\* Swatches of each colour row the model clicks (the first ones of the row).
MaxSwatches == 2
\* Fields in which a record drawn for the codec differs from a well-formed one.
MaxAnomalies == 2
\* Fields of a configuration given to the codec that differ from the default.
MaxChanged == 1
\* Posts in a timeline response.
MaxFeed == 2

\* ------------------------------------------------------------ taxonomy
FieldNames ==
  {"headShape", "headColor", "hairStyle", "hairColor", "eyeStyle", "eyeColor",
   "eyebrowStyle", "noseStyle", "mouthStyle", "hasBlush"}

StyleFields ==
  {"headShape", "hairStyle", "eyeStyle", "eyebrowStyle", "noseStyle", "mouthStyle"}

ColorFields == {"headColor", "hairColor", "eyeColor"}

\* The values of each style field, in the order of the editor's buttons.
StyleValues(f) ==
  CASE f = "headShape" -> <<"round", "oval", "square">>
    [] f = "hairStyle" -> <<"none", "short", "spiky", "bob", "ponytail">>
    [] f = "eyeStyle" -> <<"dots", "wide", "sleepy", "sparkle">>
    [] f = "eyebrowStyle" -> <<"none", "normal", "angry", "worried", "thick">>
    [] f = "noseStyle" -> <<"none", "small", "round", "pointed">>
    [] f = "mouthStyle" -> <<"smile", "neutral", "open", "cat", "surprised">>

\* The swatches of each colour row, in the order of the editor's buttons.
Swatches(f) ==
  CASE f = "headColor" ->
         <<"#ffccaa", "#ffe4c4", "#f5d0c5", "#deb887", "#d2a679",
           "#a67c52", "#8d5524", "#a8e6cf", "#ffd3b6", "#c5b4e3">>
    [] f = "hairColor" ->
         <<"#4a3728", "#2c1810", "#8b7355", "#d4a574", "#ffd700",
           "#ff6b6b", "#4ecdc4", "#9b59b6", "#3498db", "#1a1a2e">>
    [] f = "eyeColor" ->
         <<"#333333", "#4a4a4a", "#2d5a27", "#4a90d9", "#8b4513", "#9b59b6">>

Range(s) == {s[i] : i \in 1..Len(s)}

Min(a, b) == IF a < b THEN a ELSE b

\* The values of each field of AvatarConfig: a union of string literals for
\* a style, any string for a colour, a boolean for hasBlush.
Domain(f) ==
  IF f \in StyleFields THEN Range(StyleValues(f))
  ELSE IF f \in ColorFields THEN STRING \ {Undefined, Null, JSTrue, JSFalse, JSZero}
  ELSE {JSTrue, JSFalse}

\* The initial value of currentConfig, which is also what load falls back to.
DefaultConfig ==
  [headShape |-> "round", headColor |-> "#ffccaa", hairStyle |-> "short",
   hairColor |-> "#4a3728", eyeStyle |-> "dots", eyeColor |-> "#333333",
   eyebrowStyle |-> "normal", noseStyle |-> "small", mouthStyle |-> "smile",
   hasBlush |-> JSTrue]

InDomain(config) ==
  /\ DOMAIN config = FieldNames
  /\ \A f \in FieldNames : config[f] \in Domain(f)

\* ------------------------------------------------------------ codec
AVATAR_COLLECTION == "xyz.bskatar.avatar"
AVATAR_RKEY == "self"

\* new Date().toISOString(): the instants at which the model takes a timestamp.
Timestamps == {"2026-01-01T00:00:00.000Z"}

\* { $type: AVATAR_COLLECTION, ...config, createdAt: now }: a later key of an
\* object literal replaces an earlier one of the same name.
SpreadRecord(config, now) ==
  [k \in {"$type"} \cup DOMAIN config \cup {"createdAt"} |->
     IF k = "createdAt" THEN now
     ELSE IF k \in DOMAIN config THEN config[k]
     ELSE AVATAR_COLLECTION]

\* The record argument of putRecord.
putRecordPayload(config, now) == SpreadRecord(config, now)

\* A record for createRecord that leaves the configuration out.
createRecordPayloadBare(config, now) ==
  [k \in {"$type", "createdAt"} |-> IF k = "createdAt" THEN now ELSE AVATAR_COLLECTION]

\* The record argument of createRecord, in the catch branch.
createRecordPayload(config, now) == SpreadRecord(config, now)

\* What the store keeps of a record sent as JSON: a key whose value is
\* undefined is not serialised.
JsonWire(record) ==
  [k \in {j \in DOMAIN record : record[j] # Undefined} |-> record[k]]

\* The hasBlush field as a buggy decoder would read it, with || for ??.
hasBlushWithOr(record) == Or(Get(record, "hasBlush"), JSTrue)

\* record.hasBlush ?? true
loadedHasBlush(record) == Nullish(Get(record, "hasBlush"), JSTrue)

\* A string field as a decoder would read it that took the default only for
\* a key the record does not have.
loadedStringOnlyMissing(record, f) ==
  IF f \in DOMAIN record THEN record[f] ELSE DefaultConfig[f]

\* record.<field> || '<default>'
loadedString(record, f) == Or(Get(record, f), DefaultConfig[f])

\* A decoder that copies the record and fills in the ten fields.
loadedConfigSpread(record) ==
  [k \in DOMAIN record \cup FieldNames |->
     IF k = "hasBlush" THEN loadedHasBlush(record)
     ELSE IF k \in FieldNames THEN loadedString(record, k)
     ELSE record[k]]

\* The object literal the editor's load assigns to currentConfig.
loadedConfig(record) ==
  [f \in FieldNames |->
     IF f = "hasBlush" THEN loadedHasBlush(record) ELSE loadedString(record, f)]

\* The collection and the record key the world's load passes to getRecord.
WorldCollection == "xyz.bskatar.avatar"
WorldRkey == "self"

\* A decoder that replaces only the missing and the null values.
worldLoadedConfigNullish(record) ==
  [f \in FieldNames |-> Nullish(Get(record, f), DefaultConfig[f])]

\* The object literal the world's load assigns to playerAvatar.
worldLoadedConfig(record) ==
  [f \in FieldNames |->
     IF f = "hasBlush" THEN Nullish(Get(record, "hasBlush"), JSTrue)
     ELSE Or(Get(record, f), DefaultConfig[f])]

\* ------------------------------------------------------------ geometry
Zero3 == <<0, 0, 0>>
One3 == <<1000, 1000, 1000>>

\* createMaterial(color, options) of the editor: MeshLambertMaterial, flat.
createMaterial(color, transparent, opacity) ==
  [hex |-> color, mul |-> 1000, flat |-> TRUE,
   transparent |-> transparent, opacity |-> opacity]

Opaque(color) == createMaterial(color, FALSE, 1000)

\* A nose of the colour of the head, not darkened.
noseMaterialAsHead(headColor) == Opaque(headColor)

\* new THREE.Color(headColor).multiplyScalar(0.9) as the material's colour.
noseMaterial(headColor) ==
  [hex |-> headColor, mul |-> 900, flat |-> TRUE,
   transparent |-> FALSE, opacity |-> 1000]

\* new THREE.Mesh(geometry, material), before any placement.
Mesh(geom, args, mat) ==
  [kind |-> "Mesh", geom |-> geom, args |-> args, gscale |-> One3,
   grot |-> Zero3, inflate |-> 0, mat |-> mat, pos |-> Zero3, rot |-> Zero3,
   scale |-> One3, castShadow |-> FALSE]

At(m, x, y, z) == [m EXCEPT !.pos = <<x, y, z>>]
RotX(m, a) == [m EXCEPT !.rot[1] = a]
RotY(m, a) == [m EXCEPT !.rot[2] = a]
RotZ(m, a) == [m EXCEPT !.rot[3] = a]
ScaleY(m, s) == [m EXCEPT !.scale[2] = s]
GeomScale(m, x, y, z) == [m EXCEPT !.gscale = <<x, y, z>>]
GeomRot(m, x, y, z) == [m EXCEPT !.grot = <<x, y, z>>]

\* new THREE.Group() with the children added to it, in order.
Group(children) ==
  [kind |-> "Group", children |-> children, pos |-> Zero3, scale |-> One3]

\* The vertex positions of BoxGeometry(w, h, d, sx, sy, sz), in thousandths:
\* the points of the segment grid that lie on a face of the box.
boxAxis(size, segments) == {(i * size) \div segments - size \div 2 : i \in 0..segments}

boxVertices(args) ==
  {v \in boxAxis(args[1], args[4]) \X boxAxis(args[2], args[5]) \X boxAxis(args[3], args[6]) :
     \/ v[1] \in {-(args[1] \div 2), args[1] \div 2}
     \/ v[2] \in {-(args[2] \div 2), args[2] \div 2}
     \/ v[3] \in {-(args[3] \div 2), args[3] \div 2}}

\* x*x + y*y + z*z, in millionths.
lengthSq(v) == v[1] * v[1] + v[2] * v[2] + v[3] * v[3]

\* Math.sqrt of n millionths, in thousandths, rounded down.
RECURSIVE sqrtBetween(_, _, _)
sqrtBetween(n, lo, hi) ==
  IF hi - lo <= 1 THEN lo
  ELSE LET mid == (lo + hi) \div 2
       IN IF mid * mid <= n THEN sqrtBetween(n, mid, hi) ELSE sqrtBetween(n, lo, mid)

sqrt(n) == sqrtBetween(n, 0, 46340)

\* A step that moves each vertex away from the unit sphere.
deflateVertex(v, factor) ==
  LET length == sqrt(lengthSq(v))
  IN [i \in 1..3 |-> v[i] - (((v[i] * 1000) \div length - v[i]) * factor) \div 1000]

\* x + (x/length - x) * factor for the three coordinates of a vertex.
inflateVertex(v, factor) ==
  LET length == sqrt(lengthSq(v))
  IN [i \in 1..3 |-> v[i] + (((v[i] * 1000) \div length - v[i]) * factor) \div 1000]

\* The vertex positions of a box mesh after the loop of createHead: each
\* position of the box, and where the loop has put it.
headVertices(mesh) ==
  [v \in boxVertices(mesh.args) |->
     IF mesh.inflate = 0 THEN v ELSE inflateVertex(v, mesh.inflate)]

\* ------------------------------------------------------------ generators
Icosahedron(color) == Mesh("Icosahedron", <<1000, 1>>, Opaque(color))

\* createHead: the switch on shape, with its default arm.
createHead(shape, color) ==
  CASE shape = "round" -> Icosahedron(color)
    [] shape = "oval" -> GeomScale(Icosahedron(color), 850, 1100, 900)
    [] shape = "square" ->
         [Mesh("Box", <<1600, 1800, 1500, 2, 2, 2>>, Opaque(color))
            EXCEPT !.inflate = 150]
    [] OTHER -> Icosahedron(color)

hairShort(m) ==
  <<At(Mesh("Sphere", <<1050, 8, 6, 0, 6283, 0, 1414>>, m), 0, 150, 0),
    RotX(At(Mesh("Box", <<800, 150, 300, 2, 1, 1>>, m), 0, 750, 700), 300)>>

spikePositions ==
  <<<<0, 1100, 0, 0, 0>>, <<300, 1000, 100, 200, -300>>,
    <<-300, 1000, 100, 200, 300>>, <<150, 1050, -200, -200, -150>>,
    <<-150, 1050, -200, -200, 150>>, <<0, 950, 350, 500, 0>>,
    <<400, 850, 200, 300, -500>>, <<-400, 850, 200, 300, 500>>>>

hairSpiky(m) ==
  [i \in 1..Len(spikePositions) |->
     LET p == spikePositions[i]
     IN RotZ(RotX(At(Mesh("Cone", <<150, 500, 4>>, m), p[1], p[2], p[3]),
                  p[4]), p[5])]

hairBob(m) ==
  <<At(GeomScale(Mesh("Sphere", <<1100, 8, 6>>, m), 1000, 900, 950), 0, 200, 0),
    RotZ(At(Mesh("Capsule", <<250, 400, 4, 8>>, m), -850, -100, 200), 150),
    RotZ(At(Mesh("Capsule", <<250, 400, 4, 8>>, m), 850, -100, 200), -150),
    RotX(At(Mesh("Box", <<900, 200, 250, 2, 1, 1>>, m), 0, 700, 750), 400)>>

hairPonytail(m) ==
  <<At(Mesh("Sphere", <<1050, 8, 6, 0, 6283, 0, 1571>>, m), 0, 100, 0),
    RotX(At(Mesh("Capsule", <<200, 700, 4, 8>>, m), 0, 300, -900), 600),
    RotX(At(Mesh("Torus", <<150, 50, 6, 8>>, Opaque("#ff6b6b")), 0, 600, -850),
         1871),
    RotX(At(Mesh("Box", <<700, 150, 250, 2, 1, 1>>, m), 0, 750, 700), 300)>>

\* createHair: 'none' returns the empty group; the switch has no default arm.
createHair(style, color) ==
  IF style = "none" THEN Group(<<>>)
  ELSE CASE style = "short" -> Group(hairShort(Opaque(color)))
         [] style = "spiky" -> Group(hairSpiky(Opaque(color)))
         [] style = "bob" -> Group(hairBob(Opaque(color)))
         [] style = "ponytail" -> Group(hairPonytail(Opaque(color)))
         [] OTHER -> Group(<<>>)

\* Two brows of one box geometry at x = -0.35 and 0.35, tilted by -/+ tilt.
browPair(args, m, tilt) ==
  <<RotZ(At(Mesh("Box", args, m), -350, 400, 820), tilt),
    RotZ(At(Mesh("Box", args, m), 350, 400, 820), -tilt)>>

\* createEyebrows: 'none' returns the empty group; no default arm.
createEyebrows(style, color) ==
  IF style = "none" THEN Group(<<>>)
  ELSE CASE style = "normal" ->
              Group(browPair(<<200, 40, 50, 1, 1, 1>>, Opaque(color), 0))
         [] style = "angry" ->
              Group(browPair(<<220, 50, 50, 1, 1, 1>>, Opaque(color), 400))
         [] style = "worried" ->
              Group(browPair(<<220, 50, 50, 1, 1, 1>>, Opaque(color), -350))
         [] style = "thick" ->
              Group(browPair(<<250, 80, 60, 1, 1, 1>>, Opaque(color), 0))
         [] OTHER -> Group(<<>>)

\* createNose: 'none' returns the empty group; no default arm.
createNose(style, headColor) ==
  IF style = "none" THEN Group(<<>>)
  ELSE CASE style = "small" ->
              Group(<<At(Mesh("Sphere", <<60, 6, 4>>, noseMaterial(headColor)),
                         0, -50, 950)>>)
         [] style = "round" ->
              Group(<<At(GeomScale(Mesh("Sphere", <<100, 6, 4>>,
                                        noseMaterial(headColor)),
                                   1000, 800, 700), 0, -50, 950)>>)
         [] style = "pointed" ->
              Group(<<At(GeomRot(Mesh("Cone", <<60, 150, 4>>,
                                      noseMaterial(headColor)),
                                 -1571, 0, 0), 0, -50, 1000)>>)
         [] OTHER -> Group(<<>>)

\* One eye of the 'wide' and 'sparkle' styles: white, pupil and (sparkle) shine.
eyeOf(side, whiteR, pupilR, pupilDz, shine) ==
  <<At(Mesh("Sphere", <<whiteR, 8, 6>>, Opaque("#ffffff")), side * 350, 150, 800),
    At(Mesh("Sphere", <<pupilR, 8, 6>>, shine.eye), side * 350, 150, 850 + pupilDz)>>
  \o (IF shine.on
      THEN <<At(Mesh("Sphere", <<40, 6, 4>>, Opaque("#ffffff")),
                side * 350 + 50, 200, 970)>>
      ELSE <<>>)

eyesSleepy(m) ==
  <<ScaleY(At(GeomRot(Mesh("Capsule", <<40, 120, 4, 8>>, m), 0, 0, 1571),
              -350, 150, 850), 500),
    ScaleY(At(GeomRot(Mesh("Capsule", <<40, 120, 4, 8>>, m), 0, 0, 1571),
              350, 150, 850), 500)>>

\* createEyes: the switch has no default arm.
createEyes(style, color) ==
  CASE style = "dots" ->
         Group(<<At(Mesh("Sphere", <<80, 8, 6>>, Opaque(color)), -350, 150, 850),
                 At(Mesh("Sphere", <<80, 8, 6>>, Opaque(color)), 350, 150, 850)>>)
    [] style = "wide" ->
         Group(eyeOf(-1, 150, 80, 80, [on |-> FALSE, eye |-> Opaque(color)])
               \o eyeOf(1, 150, 80, 80, [on |-> FALSE, eye |-> Opaque(color)]))
    [] style = "sleepy" -> Group(eyesSleepy(Opaque(color)))
    [] style = "sparkle" ->
         Group(eyeOf(-1, 160, 100, 60, [on |-> TRUE, eye |-> Opaque(color)])
               \o eyeOf(1, 160, 100, 60, [on |-> TRUE, eye |-> Opaque(color)]))
    [] OTHER -> Group(<<>>)

mouthMaterial == Opaque("#333333")
tongueMaterial == Opaque("#ff6b6b")

mouthOpen ==
  <<At(GeomScale(Mesh("Sphere", <<120, 8, 6>>, mouthMaterial), 1300, 800, 500),
       0, -250, 900),
    At(GeomScale(Mesh("Sphere", <<60, 6, 4>>, tongueMaterial), 1000, 600, 500),
       0, -300, 920)>>

mouthCat ==
  <<At(GeomRot(Mesh("Torus", <<80, 20, 6, 8, 3142>>, mouthMaterial),
               3142, 0, 2356), -60, -270, 900),
    At(GeomRot(Mesh("Torus", <<80, 20, 6, 8, 3142>>, mouthMaterial),
               3142, 0, 785), 60, -270, 900)>>

\* createMouth: the switch has no default arm.
createMouth(style) ==
  CASE style = "smile" ->
         Group(<<At(GeomRot(Mesh("Torus", <<150, 25, 8, 12, 3142>>, mouthMaterial),
                            3142, 0, 3142), 0, -250, 900)>>)
    [] style = "neutral" ->
         Group(<<At(GeomRot(Mesh("Capsule", <<20, 200, 4, 8>>, mouthMaterial),
                            0, 0, 1571), 0, -250, 900)>>)
    [] style = "open" -> Group(mouthOpen)
    [] style = "cat" -> Group(mouthCat)
    [] style = "surprised" ->
         Group(<<At(Mesh("Torus", <<100, 30, 8, 12>>, mouthMaterial),
                    0, -250, 900)>>)
    [] OTHER -> Group(<<>>)

blushMaterial == createMaterial("#ffaaaa", TRUE, 600)

createBlush ==
  Group(<<RotY(At(Mesh("Circle", <<100, 6>>, blushMaterial), -550, -50, 750), -400),
          RotY(At(Mesh("Circle", <<100, 6>>, blushMaterial), 550, -50, 750), 400)>>)

\* ------------------------------------------------------------ assemblers
\* while (group.children.length > 0) group.remove(group.children[0])
RECURSIVE ClearChildren(_)
ClearChildren(children) ==
  IF Len(children) > 0 THEN ClearChildren(Tail(children)) ELSE children

\* An assembler that adds the blush whatever the flag.
blushPartAlways(config) == <<createBlush>>

\* if (config.hasBlush): any truthy value adds the blush.
blushPart(config) ==
  IF Falsy(config.hasBlush) THEN <<>> ELSE <<createBlush>>

\* An assembler that adds the parts in the order the generators are declared.
avatarPartsAsDeclared(config) ==
  <<createHead(config.headShape, config.headColor),
    createHair(config.hairStyle, config.hairColor),
    createEyebrows(config.eyebrowStyle, config.hairColor),
    createNose(config.noseStyle, config.headColor),
    createEyes(config.eyeStyle, config.eyeColor),
    createMouth(config.mouthStyle)>> \o blushPart(config)

\* The parts buildAvatar adds, in the order it adds them.
avatarParts(config) ==
  <<createHead(config.headShape, config.headColor),
    createHair(config.hairStyle, config.hairColor),
    createNose(config.noseStyle, config.headColor),
    createEyes(config.eyeStyle, config.eyeColor),
    createEyebrows(config.eyebrowStyle, config.hairColor),
    createMouth(config.mouthStyle)>> \o blushPart(config)

\* An assembler that adds the new parts without removing the old ones.
buildAvatarNoClear(config, children) == children \o avatarParts(config)

\* buildAvatar(config) on an avatarGroup whose children are `children`:
\* the children of avatarGroup when it returns.
buildAvatar(config, children) == ClearChildren(children) \o avatarParts(config)

\* createMaterial(color) of the world.
worldMaterial(color) ==
  [hex |-> color, mul |-> 1000, flat |-> TRUE,
   transparent |-> FALSE, opacity |-> 1000]

Shadow(m) == [m EXCEPT !.castShadow = TRUE]

worldHead(config) ==
  CASE config.headShape = "oval" ->
         GeomScale(Mesh("Icosahedron", <<1000, 1>>, worldMaterial(config.headColor)),
                   850, 1100, 900)
    [] config.headShape = "square" ->
         Mesh("Box", <<1600, 1800, 1500, 2, 2, 2>>, worldMaterial(config.headColor))
    [] OTHER -> Mesh("Icosahedron", <<1000, 1>>, worldMaterial(config.headColor))

worldSpikes == <<<<0, 1100, 0>>, <<300, 1000, 100>>, <<-300, 1000, 100>>>>

worldHair(config) ==
  IF config.hairStyle = "none" THEN <<>>
  ELSE IF config.hairStyle = "spiky"
  THEN [i \in 1..Len(worldSpikes) |->
          Shadow(At(Mesh("Cone", <<150, 500, 4>>, worldMaterial(config.hairColor)),
                    worldSpikes[i][1], worldSpikes[i][2], worldSpikes[i][3]))]
  ELSE <<Shadow(At(Mesh("Sphere", <<1050, 8, 6, 0, 6283, 0, 1414>>,
                        worldMaterial(config.hairColor)), 0, 150, 0))>>

worldBlushMaterial ==
  [hex |-> "#ffaaaa", mul |-> 1000, flat |-> FALSE,
   transparent |-> TRUE, opacity |-> 600]

worldBlush(config) ==
  IF Falsy(config.hasBlush) THEN <<>>
  ELSE <<RotY(At(Mesh("Circle", <<100, 6>>, worldBlushMaterial), -500, -50, 750), -400),
         RotY(At(Mesh("Circle", <<100, 6>>, worldBlushMaterial), 500, -50, 750), 400)>>

\* The group buildPlayerAvatar fills and adds to player.
worldAvatarGroup(config) ==
  [kind |-> "Group",
   children |->
     <<Shadow(worldHead(config)),
       Shadow(At(Mesh("Capsule", <<400, 800, 4, 8>>, worldMaterial(config.headColor)),
                 0, -1400, 0))>>
     \o worldHair(config)
     \o <<At(Mesh("Sphere", <<80, 8, 6>>, worldMaterial(config.eyeColor)), -300, 150, 850),
          At(Mesh("Sphere", <<80, 8, 6>>, worldMaterial(config.eyeColor)), 300, 150, 850)>>
     \o worldBlush(config),
   pos |-> <<0, 1200, 0>>, scale |-> <<600, 600, 600>>]

\* buildPlayerAvatar(config) on a player whose children are `children`.
buildPlayerAvatar(config, children) ==
  ClearChildren(children) \o <<worldAvatarGroup(config)>>

\* ------------------------------------------------------------ record store
\* The identity the app password of the model logs in as.
Did == "did:plc:alice"

\* What a failed call to the store throws: the fields the code reads
\* (err.message, err.status; 0 stands for no status) and the cause.
ErrNetwork == [cause |-> "network", status |-> 0, message |-> "Failed to fetch"]
ErrNoMessage == [cause |-> "network", status |-> 0, message |-> Undefined]
ErrExpired == [cause |-> "auth", status |-> 400, message |-> "Token has expired"]
ErrMissing == [cause |-> "missing", status |-> 400, message |-> "Could not locate record"]
ErrMissingMsg == [cause |-> "missing", status |-> 404, message |-> "Record not found"]
ErrConflict == [cause |-> "conflict", status |-> 400, message |-> "Record already exists"]
Ok == [cause |-> "ok", status |-> 200, message |-> Undefined]

\* Failures that do not depend on the record: the network (with and without
\* a message), the credentials (an expired token is answered with status 400).
HardErrors == {ErrNetwork, ErrNoMessage, ErrExpired}

\* err.message?.includes('not found'), on the messages of the model.
IncludesNotFound(message) == message \in {"Record not found"}

\* The store holds at most one avatar record of the identity: <<>> or <<r>>.
GetOutcomes(st) ==
  IF st = <<>> THEN {ErrMissing, ErrMissingMsg} \cup HardErrors
  ELSE {Ok} \cup HardErrors

\* putRecord is the update-style write: it fails when there is no record.
PutOutcomes(st) ==
  IF st = <<>> THEN {ErrMissing} \cup HardErrors ELSE {Ok} \cup HardErrors

\* createRecord fails when the record key is taken.
CreateOutcomes(st) ==
  IF st = <<>> THEN {Ok} \cup HardErrors ELSE {ErrConflict} \cup HardErrors

\* Records another client of the store may have written under the same key:
\* an empty one, and one from another schema version, with style values this
\* code does not know, an empty and a null value and a field of its own.
ForeignRecords ==
  {[k \in {"$type"} |-> AVATAR_COLLECTION],
   [k \in {"$type", "headShape", "headColor", "hairStyle", "eyeStyle",
            "hasBlush", "accessory"} |->
      CASE k = "$type" -> AVATAR_COLLECTION
        [] k = "headShape" -> "triangle"
        [] k = "headColor" -> ""
        [] k = "hairStyle" -> "mohawk"
        [] k = "eyeStyle" -> "wide"
        [] k = "hasBlush" -> Null
        [] k = "accessory" -> "hat"]}

\* ------------------------------------------------------------ state
VARIABLES
  app,            \* which front end this page runs: "editor" or "world"
  clicks,         \* the clicks of the user so far
  store,          \* the record store's slot for the identity: <<>> or <<r>>
  currentConfig,  \* editor: the live configuration
  avatarGroup,    \* editor: the children of avatarGroup
  isLoggedIn,     \* editor: isLoggedIn
  session,        \* editor: agent.session?.did
  saveCall,       \* editor: the save the save button started, and its requests
  saveReturn,     \* editor: what saveAvatarToBluesky last returned
  loadCall,       \* editor: the getRecord calls awaited, of the load button and of login
  loadReturn,     \* editor: what loadAvatarFromBluesky last returned, and why
  loginPc,        \* editor: where the login handler is
  playerAvatar,   \* world: the live configuration
  player,         \* world: the children of player
  worldLoggedIn,  \* world: isLoggedIn
  worldSession,   \* world: agent.session?.did
  localStorage,   \* world: localStorage[SESSION_KEY]
  worldTask,      \* world: where tryResumeSession and login are
  worldLoadCause, \* world: what the last getRecord of a load answered
  worldLoadReturn,\* world: what loadAvatarFromBluesky last returned
  fetches,        \* world: fetchPosts calls from the refresh token, awaiting
  posts,          \* world: posts, each with its mesh
  sceneMeshes,    \* world: the post meshes attached to the scene
  meshCount       \* world: post batches created so far

editorVars ==
  <<currentConfig, avatarGroup, isLoggedIn, session, saveCall,
    saveReturn, loadCall, loadReturn, loginPc>>

worldVars ==
  <<playerAvatar, player, worldLoggedIn, worldSession, localStorage, worldTask,
    worldLoadCause, worldLoadReturn, fetches, posts, sceneMeshes, meshCount>>

vars == <<app, clicks, store, editorVars, worldVars>>

NoResult == "<none>"
Success == "<success>"

\* No save awaited: pc, the record sent to putRecord, the cause of putRecord's
\* failure, and the record sent to createRecord.
IdleSave == [pc |-> "idle", put |-> <<>>, putFailed |-> "", create |-> <<>>]

\* A return value {success, error}, with the cause of the response behind it.
Return(cause, result) == [cause |-> cause, result |-> result]

\* ------------------------------------------------------------ editor
\* The values a click can give field f: a style button, one of the first
\* swatches of the row, or the blush checkbox, which flips.
ClickValues(f, config) ==
  IF f \in StyleFields THEN Range(StyleValues(f))
  ELSE IF f \in ColorFields
  THEN {Swatches(f)[i] : i \in 1..Min(MaxSwatches, Len(Swatches(f)))}
  ELSE {IF Falsy(config[f]) THEN JSTrue ELSE JSFalse}

\* A click handler that leaves the avatar as it was.
notRebuiltAfterEdit(config) == avatarGroup

\* buildAvatar(currentConfig), the call that follows the assignment in every
\* click handler.
rebuiltAfterEdit(config) == buildAvatar(config, avatarGroup)

\* A click handler of createUI: assign the field, rebuild the avatar.
Edit(f, v) ==
  /\ app = "editor"
  /\ clicks < MaxClicks
  /\ v \in ClickValues(f, currentConfig)
  /\ clicks' = clicks + 1
  /\ currentConfig' = [currentConfig EXCEPT ![f] = v]
  /\ avatarGroup' = rebuiltAfterEdit(currentConfig')
  /\ UNCHANGED <<app, store, isLoggedIn, session, saveCall, saveReturn, loadCall,
                 loadReturn, loginPc, worldVars>>

\* loadAvatarFromBluesky up to its await, for the caller c: it returns at
\* once without a login or a session, and else sends getRecord.
LoadEnter(c) ==
  IF ~isLoggedIn
  THEN /\ loadReturn' = Return("", "Not logged in")
       /\ UNCHANGED loadCall
  ELSE IF session = Undefined
  THEN /\ loadReturn' = Return("", "No session")
       /\ UNCHANGED loadCall
  ELSE /\ loadCall' = [loadCall EXCEPT ![c] = @ + 1]
       /\ UNCHANGED loadReturn

\* A catch block that returns the message of the error as it is.
loadErrorMessageOnly(err) ==
  IF IncludesNotFound(err.message) \/ err.status = 400
  THEN "No avatar saved yet"
  ELSE err.message

\* The catch block of loadAvatarFromBluesky: the error it returns.
loadError(err) ==
  IF IncludesNotFound(err.message) \/ err.status = 400
  THEN "No avatar saved yet"
  ELSE Or(err.message, "Load failed")

\* A load that falls back to the default configuration when it fails.
configResetOnFailure(out) ==
  IF out = Ok THEN loadedConfig(store[1]) ELSE DefaultConfig

\* currentConfig after the try block of loadAvatarFromBluesky: assigned from
\* the record when getRecord returned one, untouched when it threw.
configAfterGetRecord(out) ==
  IF out = Ok THEN loadedConfig(store[1]) ELSE currentConfig

\* A load that puts the reassembly off, to a later task.
notRebuiltAfterLoad(config) == avatarGroup

\* buildAvatar(currentConfig), the statement after the assignment in the try
\* block of loadAvatarFromBluesky.
rebuiltAfterLoad(config) == buildAvatar(config, avatarGroup)

\* The login button of the form that is shown while logged out, disabled
\* while the agent.login it sent is awaited: agent.login is sent. A logout
\* draws a new form, whatever an earlier login() still awaits.
LoginStart ==
  /\ app = "editor"
  /\ clicks < MaxClicks
  /\ clicks' = clicks + 1
  /\ ~isLoggedIn
  /\ loginPc = "idle"
  /\ loginPc' = "agentLogin"
  /\ UNCHANGED <<app, store, currentConfig, avatarGroup, isLoggedIn, session,
                 saveCall, saveReturn, loadCall, loadReturn, worldVars>>

\* agent.login returns: login sets the session state and starts the load.
LoginResponse(ok) ==
  /\ app = "editor"
  /\ loginPc = "agentLogin"
  /\ IF ok
     THEN /\ isLoggedIn' = TRUE
          /\ session' = Did
          /\ loadCall' = [loadCall EXCEPT !["login"] = @ + 1]
     ELSE UNCHANGED <<isLoggedIn, session, loadCall>>
  /\ loginPc' = "idle"
  /\ UNCHANGED <<app, clicks, store, currentConfig, avatarGroup, saveCall,
                 saveReturn, loadReturn, worldVars>>

\* logout(): the session of the agent stays.
Logout ==
  /\ app = "editor"
  /\ clicks < MaxClicks
  /\ clicks' = clicks + 1
  /\ isLoggedIn
  /\ isLoggedIn' = FALSE
  /\ UNCHANGED <<app, store, currentConfig, avatarGroup, session, saveCall,
                 saveReturn, loadCall, loadReturn, loginPc, worldVars>>

\* The load button, disabled while the load it started is awaited. (Another
\* load button is drawn only by a logout and a login after that click.)
LoadStart ==
  /\ app = "editor"
  /\ clicks < MaxClicks
  /\ clicks' = clicks + 1
  /\ isLoggedIn
  /\ loadCall["button"] = 0
  /\ LoadEnter("button")
  /\ UNCHANGED <<app, store, currentConfig, avatarGroup, isLoggedIn, session,
                 saveCall, saveReturn, loginPc, worldVars>>

\* getRecord returns to the load of caller c: the rest of loadAvatarFromBluesky.
LoadResponse(c, out) ==
  /\ app = "editor"
  /\ loadCall[c] > 0
  /\ out \in GetOutcomes(store)
  /\ currentConfig' = configAfterGetRecord(out)
  /\ avatarGroup' = IF out = Ok THEN rebuiltAfterLoad(currentConfig')
                    ELSE avatarGroup
  /\ loadReturn' = Return(out.cause, IF out = Ok THEN Success ELSE loadError(out))
  /\ loadCall' = [loadCall EXCEPT ![c] = @ - 1]
  /\ UNCHANGED <<app, clicks, store, isLoggedIn, session, saveCall, saveReturn,
                 loginPc, worldVars>>

\* A save that looks at the session of the agent only, not at isLoggedIn.
SaveEnterSessionOnly(now) ==
  IF session = Undefined
  THEN /\ saveReturn' = Return("", "No session")
       /\ UNCHANGED saveCall
  ELSE /\ saveCall' = [IdleSave EXCEPT
            !.pc = "putRecord", !.put = <<putRecordPayload(currentConfig, now)>>]
       /\ UNCHANGED saveReturn

\* saveAvatarToBluesky up to its await: it returns at once without a login
\* or a session, and else sends putRecord.
SaveEnter(now) ==
  IF ~isLoggedIn
  THEN /\ saveReturn' = Return("", "Not logged in")
       /\ UNCHANGED saveCall
  ELSE IF session = Undefined
  THEN /\ saveReturn' = Return("", "No session")
       /\ UNCHANGED saveCall
  ELSE /\ saveCall' = [IdleSave EXCEPT
            !.pc = "putRecord", !.put = <<putRecordPayload(currentConfig, now)>>]
       /\ UNCHANGED saveReturn

\* The save button, disabled while the save it started is awaited:
\* saveAvatarToBluesky up to the await of putRecord. (Another save button is
\* drawn only by a logout and a login after that click.)
SaveStart(now) ==
  /\ app = "editor"
  /\ clicks < MaxClicks
  /\ clicks' = clicks + 1
  /\ isLoggedIn
  /\ saveCall.pc = "idle"
  /\ SaveEnter(now)
  /\ UNCHANGED <<app, store, currentConfig, avatarGroup, isLoggedIn, session,
                 loadCall, loadReturn, loginPc, worldVars>>

\* saveAvatarToBluesky() called in whatever login state the page is in.
SaveCalled(now) ==
  /\ app = "editor"
  /\ clicks < MaxClicks
  /\ clicks' = clicks + 1
  /\ saveCall.pc = "idle"
  /\ SaveEnter(now)
  /\ UNCHANGED <<app, store, currentConfig, avatarGroup, isLoggedIn, session,
                 loadCall, loadReturn, loginPc, worldVars>>

\* loadAvatarFromBluesky() called in whatever login state the page is in.
LoadCalled ==
  /\ app = "editor"
  /\ clicks < MaxClicks
  /\ clicks' = clicks + 1
  /\ loadCall["button"] = 0
  /\ LoadEnter("button")
  /\ UNCHANGED <<app, store, currentConfig, avatarGroup, isLoggedIn, session,
                 saveCall, saveReturn, loginPc, worldVars>>

\* The inner catch of saveAvatarToBluesky: whatever putRecord threw,
\* createRecord is sent, with a record built from currentConfig as it is now.
SavePutCatch(out, now) ==
  [saveCall EXCEPT !.pc = "createRecord", !.putFailed = out.cause,
     !.create = <<createRecordPayload(currentConfig, now)>>]

\* putRecord returns.
SavePutResponse(out, now) ==
  /\ app = "editor"
  /\ saveCall.pc = "putRecord"
  /\ out \in PutOutcomes(store)
  /\ IF out = Ok
     THEN /\ store' = <<JsonWire(saveCall.put[1])>>
          /\ saveCall' = IdleSave
          /\ saveReturn' = Return(out.cause, Success)
     ELSE /\ saveCall' = SavePutCatch(out, now)
          /\ UNCHANGED <<store, saveReturn>>
  /\ UNCHANGED <<app, clicks, currentConfig, avatarGroup, isLoggedIn, session,
                 loadCall, loadReturn, loginPc, worldVars>>

\* A save that, when createRecord fails, falls back to the default
\* configuration and rebuilds the avatar.
SaveCreateResponseResetting(out) ==
  /\ app = "editor"
  /\ saveCall.pc = "createRecord"
  /\ out \in CreateOutcomes(store)
  /\ IF out = Ok
     THEN /\ store' = <<JsonWire(saveCall.create[1])>>
          /\ saveReturn' = Return(out.cause, Success)
          /\ UNCHANGED <<currentConfig, avatarGroup>>
     ELSE /\ saveReturn' = Return(out.cause, Or(out.message, "Save failed"))
          /\ currentConfig' = DefaultConfig
          /\ avatarGroup' = buildAvatar(DefaultConfig, avatarGroup)
          /\ UNCHANGED store
  /\ saveCall' = IdleSave
  /\ UNCHANGED <<app, clicks, isLoggedIn, session, loadCall, loadReturn, loginPc,
                 worldVars>>

\* createRecord returns.
SaveCreateResponse(out) ==
  /\ app = "editor"
  /\ saveCall.pc = "createRecord"
  /\ out \in CreateOutcomes(store)
  /\ IF out = Ok
     THEN /\ store' = <<JsonWire(saveCall.create[1])>>
          /\ saveReturn' = Return(out.cause, Success)
     ELSE /\ saveReturn' = Return(out.cause, Or(out.message, "Save failed"))
          /\ UNCHANGED store
  /\ saveCall' = IdleSave
  /\ UNCHANGED <<app, clicks, currentConfig, avatarGroup, isLoggedIn, session,
                 loadCall, loadReturn, loginPc, worldVars>>

\* Another client writes the record, or deletes it.
ForeignWrite(r) ==
  /\ r \in ForeignRecords
  /\ store # <<r>>
  /\ store' = <<r>>
  /\ UNCHANGED <<app, clicks, editorVars, worldVars>>

ForeignDelete ==
  /\ store # <<>>
  /\ store' = <<>>
  /\ UNCHANGED <<app, clicks, editorVars, worldVars>>

\* ------------------------------------------------------------ world
SavedSession == "{\"did\":\"did:plc:alice\"}"

FeedUris == <<"at://post/1", "at://post/2", "at://post/3", "at://post/4">>

\* The feeds getTimeline may return.
Feeds == {SubSeq(FeedUris, 1, n) : n \in 0..Min(MaxFeed, Len(FeedUris))}

PostMeshes(ps) == {ps[i].mesh : i \in 1..Len(ps)}

\* A fetchPosts that adds the new post meshes and leaves the old ones.
FetchApplyKeepingOld(feed) ==
  /\ meshCount' = meshCount + 1
  /\ posts' = [i \in 1..Len(feed) |-> [uri |-> feed[i], mesh |-> <<meshCount', i>>]]
  /\ sceneMeshes' = sceneMeshes \cup PostMeshes(posts')

\* fetchPosts after its await returned a feed: the old post meshes leave the
\* scene, every item becomes a post with a new mesh that is added to the scene.
FetchApply(feed) ==
  /\ meshCount' = meshCount + 1
  /\ posts' = [i \in 1..Len(feed) |-> [uri |-> feed[i], mesh |-> <<meshCount', i>>]]
  /\ sceneMeshes' = (sceneMeshes \ PostMeshes(posts)) \cup PostMeshes(posts')

\* The login button of the world, disabled until login() has returned.
WorldLoginStart ==
  /\ app = "world"
  /\ clicks < MaxClicks
  /\ clicks' = clicks + 1
  /\ ~worldLoggedIn
  /\ worldTask["login"] = "idle"
  /\ worldTask' = [worldTask EXCEPT !["login"] = "auth"]
  /\ UNCHANGED <<app, store, editorVars, worldLoadCause, worldLoadReturn,
                 playerAvatar, player,
                 worldLoggedIn, worldSession, localStorage, fetches, posts,
                 sceneMeshes, meshCount>>

\* agent.resumeSession (t = "resume") or agent.login (t = "login") returns.
WorldAuthResponse(t, ok) ==
  /\ app = "world"
  /\ worldTask[t] = "auth"
  /\ IF ok
     THEN /\ worldLoggedIn' = TRUE
          /\ worldSession' = Did
          /\ localStorage' = IF t = "login" THEN SavedSession ELSE localStorage
          /\ worldTask' = [worldTask EXCEPT ![t] = "getRecord"]
     ELSE /\ localStorage' = IF t = "resume" THEN Undefined ELSE localStorage
          /\ worldTask' = [worldTask EXCEPT ![t] = "idle"]
          /\ UNCHANGED <<worldLoggedIn, worldSession>>
  /\ UNCHANGED <<app, clicks, store, editorVars, worldLoadCause, worldLoadReturn,
                 playerAvatar,
                 player, fetches, posts, sceneMeshes, meshCount>>

\* The world's loadAvatarFromBluesky up to its await, for the caller t: it
\* returns at once, and returns nothing, without a login or a session, and
\* else sends getRecord. When it returns at once the caller goes on to
\* fetchPosts, which sends getTimeline unless isLoggedIn is false.
WorldLoadEnter(t) ==
  IF ~worldLoggedIn \/ worldSession = Undefined
  THEN /\ worldLoadReturn' = Undefined
       /\ worldTask' = [worldTask EXCEPT
            ![t] = IF worldLoggedIn THEN "getTimeline" ELSE "idle"]
  ELSE /\ worldTask' = [worldTask EXCEPT ![t] = "getRecord"]
       /\ UNCHANGED worldLoadReturn

\* The world's loadAvatarFromBluesky() called in whatever login state the
\* page is in, by a caller that goes on as login() does.
WorldLoadCalled ==
  /\ app = "world"
  /\ clicks < MaxClicks
  /\ clicks' = clicks + 1
  /\ worldTask["login"] = "idle"
  /\ WorldLoadEnter("login")
  /\ UNCHANGED <<app, store, editorVars, worldLoadCause, playerAvatar, player,
                 worldLoggedIn, worldSession, localStorage, fetches, posts,
                 sceneMeshes, meshCount>>

\* getRecord returns to the world's loadAvatarFromBluesky, which returns to
\* its caller; the caller goes on to fetchPosts, up to its await.
WorldLoadResponse(t, out) ==
  /\ app = "world"
  /\ worldTask[t] = "getRecord"
  /\ out \in GetOutcomes(store)
  /\ IF out = Ok
     THEN /\ playerAvatar' = worldLoadedConfig(store[1])
          /\ player' = buildPlayerAvatar(playerAvatar', player)
     ELSE UNCHANGED <<playerAvatar, player>>
  /\ worldLoadCause' = out.cause
  /\ worldLoadReturn' = Undefined
  /\ worldTask' = [worldTask EXCEPT
       ![t] = IF worldLoggedIn THEN "getTimeline" ELSE "idle"]
  /\ UNCHANGED <<app, clicks, store, editorVars, worldLoggedIn, worldSession, localStorage,
                 fetches, posts, sceneMeshes, meshCount>>

\* getTimeline returns to the fetchPosts that login or tryResumeSession awaits.
WorldTimelineResponse(t, ok, feed) ==
  /\ app = "world"
  /\ worldTask[t] = "getTimeline"
  /\ feed \in Feeds
  /\ IF ok THEN FetchApply(feed) ELSE UNCHANGED <<posts, sceneMeshes, meshCount>>
  /\ worldTask' = [worldTask EXCEPT ![t] = "idle"]
  /\ UNCHANGED <<app, clicks, store, editorVars, worldLoadCause, worldLoadReturn,
                 playerAvatar,
                 player, worldLoggedIn, worldSession, localStorage, fetches>>

\* A click on the refresh token: fetchPosts() is called and not awaited.
RefreshClick ==
  /\ app = "world"
  /\ worldLoggedIn
  /\ clicks < MaxClicks
  /\ clicks' = clicks + 1
  /\ fetches' = fetches + 1
  /\ UNCHANGED <<app, store, editorVars, worldLoadCause, worldLoadReturn,
                 playerAvatar, player,
                 worldLoggedIn, worldSession, localStorage, worldTask, posts,
                 sceneMeshes, meshCount>>

\* getTimeline returns to a fetchPosts started by a click.
RefreshResponse(ok, feed) ==
  /\ app = "world"
  /\ fetches > 0
  /\ feed \in Feeds
  /\ IF ok THEN FetchApply(feed) ELSE UNCHANGED <<posts, sceneMeshes, meshCount>>
  /\ fetches' = fetches - 1
  /\ UNCHANGED <<app, clicks, store, editorVars, worldLoadCause, worldLoadReturn,
                 playerAvatar,
                 player, worldLoggedIn, worldSession, localStorage, worldTask>>

\* The logout button of the world.
WorldLogout ==
  /\ app = "world"
  /\ clicks < MaxClicks
  /\ clicks' = clicks + 1
  /\ worldLoggedIn
  /\ localStorage' = Undefined
  /\ worldLoggedIn' = FALSE
  /\ sceneMeshes' = sceneMeshes \ PostMeshes(posts)
  /\ posts' = <<>>
  /\ UNCHANGED <<app, store, editorVars, worldLoadCause, worldLoadReturn,
                 playerAvatar, player,
                 worldSession, worldTask, fetches, meshCount>>

\* ------------------------------------------------------------ specification
\* Both pages start from the default configuration, built once; the world
\* finds in localStorage what an earlier visit left and resumes from it.
Init ==
  /\ app \in {"editor", "world"}
  /\ store = <<>>
  /\ currentConfig = DefaultConfig
  /\ avatarGroup = buildAvatar(DefaultConfig, <<>>)
  /\ isLoggedIn = FALSE
  /\ session = Undefined
  /\ clicks = 0
  /\ saveCall = IdleSave
  /\ saveReturn = Return("", NoResult)
  /\ loadCall = [c \in {"button", "login"} |-> 0]
  /\ loadReturn = Return("", NoResult)
  /\ loginPc = "idle"
  /\ playerAvatar = DefaultConfig
  /\ player = buildPlayerAvatar(DefaultConfig, <<>>)
  /\ worldLoggedIn = FALSE
  /\ worldSession = Undefined
  /\ localStorage \in IF app = "world" THEN {Undefined, SavedSession} ELSE {Undefined}
  /\ worldTask = [t \in {"resume", "login"} |->
                    IF t = "resume" /\ localStorage # Undefined THEN "auth" ELSE "idle"]
  /\ worldLoadCause = ""
  /\ worldLoadReturn = NoResult
  /\ fetches = 0
  /\ posts = <<>>
  /\ sceneMeshes = {}
  /\ meshCount = 0

Next ==
  \/ \E f \in FieldNames : \E v \in ClickValues(f, currentConfig) : Edit(f, v)
  \/ LoginStart
  \/ \E ok \in BOOLEAN : LoginResponse(ok)
  \/ Logout
  \/ LoadStart
  \/ \E c \in {"button", "login"} : \E out \in GetOutcomes(store) : LoadResponse(c, out)
  \/ \E now \in Timestamps : SaveStart(now)
  \/ \E out \in PutOutcomes(store) : \E now \in Timestamps : SavePutResponse(out, now)
  \/ \E out \in CreateOutcomes(store) : SaveCreateResponse(out)
  \/ WorldLoginStart
  \/ \E t \in {"resume", "login"} : \E ok \in BOOLEAN : WorldAuthResponse(t, ok)
  \/ \E t \in {"resume", "login"} : \E out \in GetOutcomes(store) : WorldLoadResponse(t, out)
  \/ \E t \in {"resume", "login"} : \E ok \in BOOLEAN : \E feed \in Feeds :
       WorldTimelineResponse(t, ok, feed)
  \/ RefreshClick
  \/ \E ok \in BOOLEAN : \E feed \in Feeds : RefreshResponse(ok, feed)
  \/ WorldLogout
  \/ \E r \in ForeignRecords : ForeignWrite(r)
  \/ ForeignDelete

Spec == Init /\ [][Next]_vars

\* ------------------------------------------------------------ codec inputs
\* A configuration of the taxonomy that differs from the default everywhere.
SampleConfig ==
  [f \in FieldNames |->
     CASE f = "headShape" -> "square"
       [] f = "headColor" -> "#8d5524"
       [] f = "hairStyle" -> "spiky"
       [] f = "hairColor" -> "#ff6b6b"
       [] f = "eyeStyle" -> "wide"
       [] f = "eyeColor" -> "#4a90d9"
       [] f = "eyebrowStyle" -> "thick"
       [] f = "noseStyle" -> "pointed"
       [] f = "mouthStyle" -> "open"
       [] f = "hasBlush" -> JSFalse]

\* The values of field f the inputs range over.
InputValues(f) ==
  IF f \in StyleFields THEN Range(StyleValues(f))
  ELSE IF f \in ColorFields
  THEN {Swatches(f)[i] : i \in 1..Min(MaxSwatches, Len(Swatches(f)))} \cup {"#123456"}
  ELSE {JSTrue, JSFalse}

RECURSIVE Changed(_, _)
\* The configurations that differ from config in at most n fields.
Changed(config, n) ==
  IF n = 0 THEN {config}
  ELSE LET prev == Changed(config, n - 1)
       IN prev \cup UNION {UNION {{[d EXCEPT ![f] = v] : v \in InputValues(f)} :
                                    f \in FieldNames} : d \in prev}

ConfigInputs == Changed(DefaultConfig, MaxChanged) \cup {SampleConfig}

\* The record with the keys in S removed.
WithMissing(record, S) == [k \in DOMAIN record \ S |-> record[k]]

\* What another writer may have put in field f instead of a value of the
\* taxonomy: the falsy values JSON can carry, and a value of its own.
RawValues(f) ==
  {Null, "", JSFalse, JSZero,
   IF f \in StyleFields THEN "mohawk" ELSE IF f \in ColorFields THEN "blue" ELSE "yes"}

RECURSIVE Anomalous(_, _)
\* The records that differ from record in at most n fields, each of them
\* removed or holding a raw value.
Anomalous(record, n) ==
  IF n = 0 THEN {record}
  ELSE LET prev == Anomalous(record, n - 1)
       IN prev \cup UNION {UNION {{[r EXCEPT ![f] = v] : v \in RawValues(f)}
                                    \cup {WithMissing(r, {f})} :
                                    f \in FieldNames \cap DOMAIN r} : r \in prev}

SampleRecord == JsonWire(SpreadRecord(SampleConfig, "2026-01-01T00:00:00.000Z"))

RecordInputs ==
  {WithMissing(SampleRecord, S) : S \in SUBSET FieldNames}
    \cup Anomalous(SampleRecord, MaxAnomalies)

\* ------------------------------------------------------------ decoding alone
\* Either page right after a login that succeeded, its load awaiting
\* getRecord, with any of the input records in the store.
InitDecode ==
  /\ app \in {"editor", "world"}
  /\ store \in {<<r>> : r \in RecordInputs}
  /\ clicks = 1
  /\ currentConfig = DefaultConfig
  /\ avatarGroup = buildAvatar(DefaultConfig, <<>>)
  /\ isLoggedIn = (app = "editor")
  /\ session = IF app = "editor" THEN Did ELSE Undefined
  /\ saveCall = IdleSave
  /\ saveReturn = Return("", NoResult)
  /\ loadCall = [c \in {"button", "login"} |->
                   IF c = "login" /\ app = "editor" THEN 1 ELSE 0]
  /\ loadReturn = Return("", NoResult)
  /\ loginPc = "idle"
  /\ playerAvatar = DefaultConfig
  /\ player = buildPlayerAvatar(DefaultConfig, <<>>)
  /\ worldLoggedIn = (app = "world")
  /\ worldSession = IF app = "world" THEN Did ELSE Undefined
  /\ localStorage = IF app = "world" THEN SavedSession ELSE Undefined
  /\ worldTask = [t \in {"resume", "login"} |->
                    IF t = "login" /\ app = "world" THEN "getRecord" ELSE "idle"]
  /\ worldLoadCause = ""
  /\ worldLoadReturn = NoResult
  /\ fetches = 0
  /\ posts = <<>>
  /\ sceneMeshes = {}
  /\ meshCount = 0

NextDecode ==
  \/ \E c \in {"login"} : \E out \in GetOutcomes(store) : LoadResponse(c, out)
  \/ \E t \in {"login"} : \E out \in GetOutcomes(store) : WorldLoadResponse(t, out)

SpecDecode == InitDecode /\ [][NextDecode]_vars

\* ------------------------------------------------------------ save, then load
\* The editor, logged in, after edits that led to any of the input
\* configurations; the store is empty or holds the default avatar.
InitRoundTrip ==
  /\ app = "editor"
  /\ store \in {<<>>, <<JsonWire(SpreadRecord(DefaultConfig, "2026-01-01T00:00:00.000Z"))>>}
  /\ clicks = 1
  /\ currentConfig \in ConfigInputs
  /\ avatarGroup = buildAvatar(currentConfig, <<>>)
  /\ isLoggedIn = TRUE
  /\ session = Did
  /\ saveCall = IdleSave
  /\ saveReturn = Return("", NoResult)
  /\ loadCall = [c \in {"button", "login"} |-> 0]
  /\ loadReturn = Return("", NoResult)
  /\ loginPc = "idle"
  /\ playerAvatar = DefaultConfig
  /\ player = buildPlayerAvatar(DefaultConfig, <<>>)
  /\ worldLoggedIn = FALSE
  /\ worldSession = Undefined
  /\ localStorage = Undefined
  /\ worldTask = [t \in {"resume", "login"} |-> "idle"]
  /\ worldLoadCause = ""
  /\ worldLoadReturn = NoResult
  /\ fetches = 0
  /\ posts = <<>>
  /\ sceneMeshes = {}
  /\ meshCount = 0

NextRoundTrip ==
  \/ \E now \in Timestamps : SaveStart(now)
  \/ \E out \in PutOutcomes(store) : \E now \in Timestamps : SavePutResponse(out, now)
  \/ \E out \in CreateOutcomes(store) : SaveCreateResponse(out)
  \/ LoadStart
  \/ \E c \in {"button"} : \E out \in GetOutcomes(store) : LoadResponse(c, out)

SpecRoundTrip == InitRoundTrip /\ [][NextRoundTrip]_vars

\* ------------------------------------------------------------ the entry checks
\* Either page before a login, after a logout (the agent keeps its session)
\* or logged in (the world then has its session in localStorage), the editor
\* with any of the input configurations, and a store that is empty or holds
\* a record; save and load are called directly.
InitGuard ==
  /\ app \in {"editor", "world"}
  /\ store \in {<<>>, <<SampleRecord>>}
  /\ clicks = 0
  /\ currentConfig \in IF app = "editor" THEN ConfigInputs ELSE {DefaultConfig}
  /\ avatarGroup = buildAvatar(currentConfig, <<>>)
  /\ isLoggedIn \in IF app = "editor" THEN BOOLEAN ELSE {FALSE}
  /\ session \in IF app = "world" THEN {Undefined}
                 ELSE IF isLoggedIn THEN {Did} ELSE {Undefined, Did}
  /\ saveCall = IdleSave
  /\ saveReturn = Return("", NoResult)
  /\ loadCall = [c \in {"button", "login"} |-> 0]
  /\ loadReturn = Return("", NoResult)
  /\ loginPc = "idle"
  /\ playerAvatar = DefaultConfig
  /\ player = buildPlayerAvatar(DefaultConfig, <<>>)
  /\ worldLoggedIn \in IF app = "world" THEN BOOLEAN ELSE {FALSE}
  /\ worldSession \in IF app = "editor" THEN {Undefined}
                      ELSE IF worldLoggedIn THEN {Did} ELSE {Undefined, Did}
  /\ localStorage = IF worldLoggedIn THEN SavedSession ELSE Undefined
  /\ worldTask = [t \in {"resume", "login"} |-> "idle"]
  /\ worldLoadCause = ""
  /\ worldLoadReturn = NoResult
  /\ fetches = 0
  /\ posts = <<>>
  /\ sceneMeshes = {}
  /\ meshCount = 0

NextGuard ==
  \/ \E now \in Timestamps : SaveCalled(now)
  \/ LoadCalled
  \/ \E out \in PutOutcomes(store) : \E now \in Timestamps : SavePutResponse(out, now)
  \/ \E out \in CreateOutcomes(store) : SaveCreateResponse(out)
  \/ \E c \in {"button"} : \E out \in GetOutcomes(store) : LoadResponse(c, out)
  \/ WorldLoadCalled
  \/ \E t \in {"login"} : \E out \in GetOutcomes(store) : WorldLoadResponse(t, out)
  \/ \E t \in {"login"} : \E ok \in BOOLEAN : \E feed \in Feeds :
       WorldTimelineResponse(t, ok, feed)

SpecGuard == InitGuard /\ [][NextGuard]_vars

\* ------------------------------------------------------------ the first save
\* The editor, logged in, with any of the input configurations and no record
\* in the store: one save, and loads once it has reported success.
InitFirstSave ==
  /\ InitRoundTrip
  /\ store = <<>>

NextFirstSave ==
  \/ \E now \in Timestamps : saveReturn.result = NoResult /\ SaveStart(now)
  \/ \E out \in PutOutcomes(store) : \E now \in Timestamps : SavePutResponse(out, now)
  \/ \E out \in CreateOutcomes(store) : SaveCreateResponse(out)
  \/ saveReturn.result = Success /\ LoadStart
  \/ \E c \in {"button"} : \E out \in GetOutcomes(store) : LoadResponse(c, out)

SpecFirstSave == InitFirstSave /\ [][NextFirstSave]_vars

\* ------------------------------------------------------------ properties
\* C1: in every reachable state, every field of the live configuration of
\* either page holds a value of its taxonomy domain: a value a load finds in
\* the record that is not of the domain has been replaced by the default.
LiveConfigInDomain == InDomain(currentConfig) /\ InDomain(playerAvatar)

\* The load button's getRecord returns the record to loadAvatarFromBluesky.
ButtonLoadApplied ==
  /\ loadCall'["button"] = loadCall["button"] - 1
  /\ loadReturn'.result = Success

\* C2: a configuration of the taxonomy that was saved and is loaded back is
\* the configuration that was saved, field by field: whenever the record a
\* load applies is the record a save builds from such a configuration C, the
\* live configuration after the load is C (hasBlush false included).
SaveLoadRoundTrip ==
  [][ButtonLoadApplied =>
       \A C \in ConfigInputs :
         store[1] = JsonWire(putRecordPayload(C, Get(store[1], "createdAt")))
           => currentConfig' = C]_vars

\* A configuration with hasBlush false and no field at its default was saved
\* and loaded back.
RoundTripDone ==
  /\ loadReturn.result = Success
  /\ saveReturn.result = Success
  /\ currentConfig = SampleConfig
  /\ store = <<SampleRecord>>

\* The configuration the page shows once a load has applied the record of
\* the store (no configuration when no load has).
Decoded ==
  IF app = "editor" /\ loadReturn.result = Success THEN <<currentConfig>>
  ELSE IF app = "world" /\ worldLoadCause = "ok" THEN <<playerAvatar>>
  ELSE <<>>

\* C3 as stated: the configuration a load produces from a record has the
\* default in every field the record lacks and the record's value in every
\* field the record has.
DecodedAsRecorded ==
  Decoded # <<>> =>
    \A f \in FieldNames :
      Decoded[1][f] = IF f \in DOMAIN store[1] THEN store[1][f] ELSE DefaultConfig[f]

\* C3: the configuration a load produces from a record has the default in
\* every field the record lacks; a field the record has keeps the record's
\* value, except that a string field whose value is falsy (empty string,
\* null, false, 0) and a hasBlush that is null become the default.
DecodedWithDefaults ==
  Decoded # <<>> =>
    \A f \in FieldNames :
      Decoded[1][f] =
        IF f \notin DOMAIN store[1] THEN DefaultConfig[f]
        ELSE IF f = "hasBlush"
        THEN (IF store[1][f] = Null THEN DefaultConfig[f] ELSE store[1][f])
        ELSE IF store[1][f] \in {"", Null, JSFalse, JSZero} THEN DefaultConfig[f]
        ELSE store[1][f]

\* A load has applied a record that lacks a field, has an empty string in
\* another and values of the taxonomy in the others.
DecodedPartialRecord ==
  /\ Decoded # <<>>
  /\ DOMAIN store[1] \cap FieldNames = FieldNames \ {"headShape"}
  /\ store[1].headColor = ""
  /\ store[1].hasBlush = JSFalse
  /\ Decoded[1].hairStyle = "spiky"
  /\ Decoded[1].headColor = "#ffccaa"
  /\ Decoded[1].headShape = "round"
  /\ Decoded[1].hasBlush = JSFalse

\* The generator of style field f, for the style and the colours of config.
generate(f, style, config) ==
  CASE f = "headShape" -> createHead(style, config.headColor)
    [] f = "hairStyle" -> createHair(style, config.hairColor)
    [] f = "noseStyle" -> createNose(style, config.headColor)
    [] f = "eyeStyle" -> createEyes(style, config.eyeColor)
    [] f = "eyebrowStyle" -> createEyebrows(style, config.hairColor)
    [] f = "mouthStyle" -> createMouth(style)

\* The place among the children of avatarGroup of the part of style field f.
partIndex(f) ==
  CASE f = "headShape" -> 1
    [] f = "hairStyle" -> 2
    [] f = "noseStyle" -> 3
    [] f = "eyeStyle" -> 4
    [] f = "eyebrowStyle" -> 5
    [] f = "mouthStyle" -> 6

\* C4: for every style field whose value in the live configuration is outside
\* the field's enumerated set, the part its generator returned is the part
\* the generator returns for the field's default style.
UnknownStyleAsDefault ==
  \A f \in StyleFields :
    currentConfig[f] \notin Range(StyleValues(f)) =>
      avatarGroup[partIndex(f)] = generate(f, DefaultConfig[f], currentConfig)

\* C5: a rebuild with the configuration of the rebuild before it leaves
\* avatarGroup with the same list of children, each with the same structure
\* and parameters; nothing of the earlier build remains.
RebuildIdempotent ==
  [][currentConfig' = currentConfig => avatarGroup' = avatarGroup]_vars

\* The editor has rebuilt, by a load, an avatar of the configuration it had
\* built before: a configuration with seven parts that was saved.
RebuiltSameConfig ==
  /\ loadReturn.result = Success
  /\ saveReturn.result = Success
  /\ store # <<>>
  /\ currentConfig = [DefaultConfig EXCEPT !["hairStyle"] = "ponytail"]
  /\ store[1].hairStyle = "ponytail"
  /\ Len(avatarGroup) = 7

\* C6: avatarGroup never has more than 7 children and player never more
\* than 1, however many rebuilds preceded.
ChildrenBounded == Len(avatarGroup) <= 7 /\ Len(player) <= 1

\* The editor has rebuilt the avatar by two edits and a load that applied
\* a record, and avatarGroup holds the seven parts of the last build.
RebuiltThrice ==
  /\ app = "editor"
  /\ clicks = MaxClicks
  /\ loadReturn.result = Success
  /\ currentConfig.hairStyle = "mohawk"
  /\ currentConfig.mouthStyle = "cat"
  /\ Len(avatarGroup) = 7

\* C7: createRecord is sent only when putRecord failed because the record
\* does not exist.
CreateOnlyWhenMissing ==
  saveCall.pc = "createRecord" => saveCall.putFailed = "missing"

\* C8: within one save, the record passed to createRecord has the schema tag
\* and the ten field values of the record passed to putRecord.
CreatePayloadAsPut ==
  saveCall.pc = "createRecord" =>
    \A k \in {"$type"} \cup FieldNames :
      Get(saveCall.create[1], k) = Get(saveCall.put[1], k)

\* C9: a load that returned reports success exactly when getRecord returned
\* a record, the informational not-found value exactly when the store has no
\* record, and an error for every other failure.
LoadOutcomeClassified ==
  loadReturn.cause # "" =>
    /\ loadReturn.result = Success <=> loadReturn.cause = "ok"
    /\ loadReturn.result = "No avatar saved yet" <=> loadReturn.cause = "missing"

\* The step in which getRecord fails a load of the editor.
EditorLoadFails ==
  \E c \in {"button", "login"} :
    /\ app = "editor"
    /\ loadCall'[c] = loadCall[c] - 1
    /\ loadReturn'.result # Success

\* The step in which getRecord fails a load of the world.
WorldLoadFails ==
  \E t \in {"resume", "login"} :
    /\ app = "world"
    /\ worldTask[t] = "getRecord"
    /\ worldTask'[t] # "getRecord"
    /\ worldLoadCause' # "ok"

\* C10: a load that ends with not-found or with any other failure changes
\* neither the live configuration nor the assembled hierarchy.
FailedLoadChangesNothing ==
  [][/\ EditorLoadFails => UNCHANGED <<currentConfig, avatarGroup>>
     /\ WorldLoadFails => UNCHANGED <<playerAvatar, player>>]_vars

\* A load has failed in the editor after an edit, and the edit is still there.
FailedLoadAfterEdit ==
  /\ loadReturn.result = "Failed to fetch"
  /\ currentConfig = [DefaultConfig EXCEPT !["headShape"] = "square"]
  /\ avatarGroup = buildAvatar(currentConfig, <<>>)

\* A result value is { success: true } or { success: false, error } with a
\* message: a string that is not empty.
Explicit(result) ==
  result \notin {NoResult, Undefined, Null, JSTrue, JSFalse, JSZero, ""}

Failure(result) == Explicit(result) /\ result # Success

\* A call of the editor's save or load while isLoggedIn is false returns
\* 'Not logged in', sends no request and changes nothing.
EditorRefuses ==
  app = "editor" /\ ~isLoggedIn /\ clicks' = clicks + 1 =>
    /\ saveCall'.pc = "idle"
    /\ \A c \in {"button", "login"} : loadCall'[c] = 0
    /\ UNCHANGED <<currentConfig, avatarGroup, store>>
    /\ \/ saveReturn'.result = "Not logged in" /\ loadReturn' = loadReturn
       \/ loadReturn'.result = "Not logged in" /\ saveReturn' = saveReturn

\* A call of the world's load while isLoggedIn is false sends no request and
\* changes nothing.
WorldRefuses ==
  app = "world" /\ ~worldLoggedIn /\ clicks' = clicks + 1 =>
    /\ worldTask' = worldTask
    /\ UNCHANGED <<playerAvatar, player, store>>

\* C11 as stated: a save or a load called while isLoggedIn is false sends no
\* request to the record store, changes neither the live configuration, nor
\* the hierarchy, nor the record, and returns a failure result, in the
\* editor and in the world.
NotLoggedInReturnsFailure ==
  [][/\ EditorRefuses
     /\ WorldRefuses
     /\ app = "world" /\ ~worldLoggedIn /\ clicks' = clicks + 1
          => Failure(worldLoadReturn')]_vars

\* C11: a save or a load called while isLoggedIn is false sends no request
\* to the record store and changes neither the live configuration, nor the
\* hierarchy, nor the record; the save and the load of the editor return the
\* failure 'Not logged in', the load of the world returns nothing
\* (undefined), which is not a failure result.
NotLoggedInNotAttempted ==
  [][/\ EditorRefuses
     /\ WorldRefuses
     /\ app = "world" /\ ~worldLoggedIn /\ clicks' = clicks + 1
          => worldLoadReturn' = Undefined /\ ~Failure(worldLoadReturn')]_vars

\* The world's load was called while logged out, with a session left in the
\* agent and a record in the store: it returned nothing, no request is
\* awaited and the avatar is the default one.
WorldLoadRefused ==
  /\ app = "world"
  /\ ~worldLoggedIn
  /\ worldSession = Did
  /\ clicks > 0
  /\ worldLoadReturn = Undefined
  /\ worldLoadCause = ""
  /\ worldTask = [t \in {"resume", "login"} |-> "idle"]
  /\ store = <<SampleRecord>>
  /\ playerAvatar = DefaultConfig

\* After a logout that left the agent its session, a save and a load were
\* called and refused; the record and the configuration are still there.
RefusedAfterLogout ==
  /\ ~isLoggedIn
  /\ session = Did
  /\ saveReturn.result = "Not logged in"
  /\ loadReturn.result = "Not logged in"
  /\ store = <<SampleRecord>>
  /\ currentConfig = SampleConfig

\* C12: starting from a store with no record, a save of the live
\* configuration C sends createRecord only after putRecord has failed, a
\* record is in the store only once createRecord succeeded and the save
\* reported success, that record is the record of C, and a load after the
\* save leaves the live configuration at C.
FirstSaveThenLoad ==
  /\ saveCall.pc = "createRecord" => saveCall.putFailed \in {"missing", "network", "auth"}
  /\ store # <<>> =>
       /\ saveReturn = Return("ok", Success)
       /\ store[1] = JsonWire(putRecordPayload(currentConfig, Get(store[1], "createdAt")))
  /\ loadReturn.result = Success => store # <<>>

\* The first save of a configuration went through createRecord, and the
\* load after it has applied the record.
FirstSaveLoaded ==
  /\ saveReturn = Return("ok", Success)
  /\ loadReturn = Return("ok", Success)
  /\ currentConfig = [DefaultConfig EXCEPT !["mouthStyle"] = "cat"]
  /\ store # <<>>
  /\ store[1].mouthStyle = "cat"

\* A load or a save is between its start and its completion.
Outstanding ==
  saveCall.pc # "idle" \/ \E c \in {"button", "login"} : loadCall[c] > 0

\* C13: while a load or a save is outstanding no click changes a field of
\* the live configuration.
NoEditWhileOutstanding ==
  [][Outstanding /\ clicks' = clicks + 1 => currentConfig' = currentConfig]_vars

\* How many persistence operations are outstanding.
outstandingCount ==
  (IF saveCall.pc # "idle" THEN 1 ELSE 0)
    + loadCall["button"] + loadCall["login"]

\* C14: at most one persistence operation (a save, a load of the load
\* button, the load of login) is outstanding at any time.
OneOperationOutstanding == outstandingCount <= 1

\* The step in which a load of the editor receives a record.
EditorLoadApplies ==
  \E c \in {"button", "login"} :
    /\ app = "editor"
    /\ loadCall'[c] = loadCall[c] - 1
    /\ loadReturn'.cause = "ok"

\* The step in which the load of the world receives a record.
WorldLoadApplies ==
  \E t \in {"resume", "login"} :
    /\ app = "world"
    /\ worldTask[t] = "getRecord"
    /\ worldTask'[t] # "getRecord"
    /\ worldLoadCause' = "ok"

\* C15: the step in which a load receives a record decodes it, assigns the
\* live configuration and reassembles the hierarchy: at its end the
\* configuration is the decoded record and the hierarchy is the assembly of
\* that configuration, with no state in between.
LoadAppliesAtOnce ==
  [][/\ EditorLoadApplies =>
          /\ currentConfig' = loadedConfig(store[1])
          /\ avatarGroup' = avatarParts(currentConfig')
     /\ WorldLoadApplies =>
          /\ playerAvatar' = worldLoadedConfig(store[1])
          /\ player' = <<worldAvatarGroup(playerAvatar')>>]_vars

\* A load of the editor has applied a record of another client after the
\* head was set to oval and while the save of that configuration awaits
\* putRecord: the live configuration is the decoded record and the hierarchy
\* is the avatar of that record.
LoadedWhole ==
  /\ app = "editor"
  /\ loadReturn.result = Success
  /\ saveCall.pc = "putRecord"
  /\ saveCall.put[1].headShape = "oval"
  /\ currentConfig.headShape = "triangle"
  /\ currentConfig = loadedConfig(store[1])
  /\ avatarGroup = avatarParts(currentConfig)

\* C16: in every state between handlers the hierarchy is the one the
\* assembler produces for the live configuration, in the editor and in the
\* world.
HierarchyOfConfig ==
  /\ avatarGroup = avatarParts(currentConfig)
  /\ player = <<worldAvatarGroup(playerAvatar)>>

\* An edit after a load that applied a record: the hierarchy shows both.
EditedAfterLoad ==
  /\ app = "editor"
  /\ loadReturn.result = Success
  /\ currentConfig.headShape = "triangle"
  /\ currentConfig.mouthStyle = "open"
  /\ avatarGroup[1] = createHead("triangle", "#ffccaa")
  /\ avatarGroup[6] = createMouth("open")

\* The nodes a generator returned: the mesh, or the children of the group.
nodeCount(part) == IF part.kind = "Mesh" THEN 1 ELSE Len(part.children)

\* The children of avatarGroup that are the blush.
blushNodes == {i \in 1..Len(avatarGroup) : avatarGroup[i] = createBlush}

\* C17 as stated: for a configuration of the taxonomy the hair has no node
\* when hairStyle is 'none', the avatar has no blush when hasBlush is false,
\* and head, nose, eyes, eyebrows and mouth each have at least one node.
OthersAlwaysYield ==
  /\ currentConfig.hairStyle = "none" => nodeCount(avatarGroup[2]) = 0
  /\ currentConfig.hasBlush = JSFalse => blushNodes = {}
  /\ \A i \in {1, 3, 4, 5, 6} : nodeCount(avatarGroup[i]) >= 1

\* C17: for a configuration of the taxonomy the hair has no node when
\* hairStyle is 'none', the avatar has no blush when hasBlush is false, head,
\* eyes and mouth each have at least one node, and nose and eyebrows have no
\* node for the style 'none' and at least one for every other style.
NodesPerGenerator ==
  /\ currentConfig.hairStyle = "none" => nodeCount(avatarGroup[2]) = 0
  /\ currentConfig.hasBlush = JSFalse => blushNodes = {}
  /\ \A i \in {1, 4, 6} : nodeCount(avatarGroup[i]) >= 1
  /\ nodeCount(avatarGroup[3]) = 0 <=> currentConfig.noseStyle = "none"
  /\ nodeCount(avatarGroup[5]) = 0 <=> currentConfig.eyebrowStyle = "none"

\* An avatar without eyebrows has been rebuilt by a load: the eyebrows are
\* an empty group, the nose and the other parts are not.
BrowlessRebuilt ==
  /\ loadReturn.result = Success
  /\ currentConfig.eyebrowStyle = "none"
  /\ avatarGroup[5] = Group(<<>>)
  /\ nodeCount(avatarGroup[3]) >= 1

\* C18: the children of avatarGroup are, in this order, the head, the hair,
\* the nose, the eyes, the eyebrows and the mouth of the live configuration,
\* followed by the blush exactly when hasBlush is true.
PartsInOrder ==
  /\ Len(avatarGroup) = IF currentConfig.hasBlush = JSTrue THEN 7 ELSE 6
  /\ avatarGroup[1] = createHead(currentConfig.headShape, currentConfig.headColor)
  /\ avatarGroup[2] = createHair(currentConfig.hairStyle, currentConfig.hairColor)
  /\ avatarGroup[3] = createNose(currentConfig.noseStyle, currentConfig.headColor)
  /\ avatarGroup[4] = createEyes(currentConfig.eyeStyle, currentConfig.eyeColor)
  /\ avatarGroup[5] = createEyebrows(currentConfig.eyebrowStyle, currentConfig.hairColor)
  /\ avatarGroup[6] = createMouth(currentConfig.mouthStyle)
  /\ blushNodes = IF currentConfig.hasBlush = JSTrue THEN {7} ELSE {}

\* An avatar with all seven parts, the nose pointed, has been rebuilt by a load.
SevenPartsRebuilt ==
  /\ loadReturn.result = Success
  /\ currentConfig = [DefaultConfig EXCEPT !["noseStyle"] = "pointed"]
  /\ avatarGroup[3] # avatarGroup[5]
  /\ avatarGroup[7] = createBlush

\* C19: avatarGroup has no child for a feature whose sub-assembly is empty.
NoEmptyChild ==
  \A i \in 1..Len(avatarGroup) : nodeCount(avatarGroup[i]) >= 1

\* The fields of a record that save writes for the configuration config.
savedShape(record, config) ==
  /\ DOMAIN record = FieldNames \cup {"$type", "createdAt"}
  /\ \A f \in FieldNames : record[f] = config[f]
  /\ record["$type"] = AVATAR_COLLECTION
  /\ record.createdAt \in Timestamps

\* C20: the live configuration has exactly the ten fields; the record a
\* save sends to putRecord or to createRecord, and the record it leaves in
\* the store, has the ten fields with the values of the live configuration,
\* the schema tag and the timestamp, and no other field.
SavedRecordShape ==
  [][/\ DOMAIN currentConfig' = FieldNames
     /\ saveCall.pc = "idle" /\ saveCall'.pc = "putRecord"
          => savedShape(saveCall'.put[1], currentConfig)
     /\ saveCall.pc = "putRecord" /\ saveCall'.pc = "createRecord"
          => savedShape(saveCall'.create[1], currentConfig)
     /\ saveCall.pc = "putRecord" /\ saveCall'.pc = "idle"
          => store' = <<saveCall.put[1]>>
     /\ saveCall.pc = "createRecord" /\ saveReturn'.cause = "ok" /\ saveCall'.pc = "idle"
          => store' = <<saveCall.create[1]>>]_vars

\* A record with a field of another schema was loaded and then saved: the
\* store holds the loaded values without that field.
ForeignFieldDropped ==
  /\ saveReturn.result = Success
  /\ loadReturn.result = Success
  /\ store # <<>>
  /\ "accessory" \notin DOMAIN store[1]
  /\ store[1].hairStyle = "mohawk"
  /\ store[1].headColor = "#ffccaa"

\* C21: a step in which saveAvatarToBluesky or loadAvatarFromBluesky returns
\* leaves an explicit result, success or a failure with a message; and
\* whenever the last result of either is a failure, avatarGroup holds the
\* complete assembly of a configuration, the live one.
ExplicitResults ==
  [][/\ saveCall'.pc = "idle" /\ (saveCall.pc # "idle" \/ saveReturn' # saveReturn)
          => Explicit(saveReturn'.result)
     /\ loadCall'["button"] = 0
          /\ (loadCall["button"] > 0 \/ loadReturn' # loadReturn)
          => Explicit(loadReturn'.result)
     /\ Failure(saveReturn'.result) \/ Failure(loadReturn'.result)
          => avatarGroup' = avatarParts(currentConfig')]_vars

\* Both calls failed on an error that carries no message, and the avatar is
\* the assembly of the live configuration.
FailedWithoutMessage ==
  /\ saveReturn = Return("network", "Save failed")
  /\ loadReturn = Return("network", "Load failed")
  /\ avatarGroup = avatarParts(currentConfig)

\* The geometry of a mesh: its constructor, its arguments, and how the
\* geometry was scaled and inflated afterwards.
geometryOf(mesh) == <<mesh.geom, mesh.args, mesh.gscale, mesh.inflate>>

\* C22: in the world, the avatar of the player has the head geometry that
\* the editor's createHead gives the live configuration, and each of the
\* sub-assemblies that the editor's buildAvatar adds is a child of it.
WorldAssemblesAsEditor ==
  app = "world" =>
    /\ geometryOf(player[1].children[1])
         = geometryOf(createHead(playerAvatar.headShape, playerAvatar.headColor))
    /\ \A i \in 2..Len(avatarParts(playerAvatar)) :
         \E j \in 1..Len(player[1].children) :
           player[1].children[j] = avatarParts(playerAvatar)[i]

\* The corners and the centres of the faces of a box: the vertices with no
\* coordinate zero, and with exactly one coordinate not zero.
corners(vs) == {v \in vs : v[1] # 0 /\ v[2] # 0 /\ v[3] # 0}

faceCentres(vs) == {v \in vs : Cardinality({i \in 1..3 : v[i] # 0}) = 1}

\* The square of the distance between two positions.
displacedSq(v, w) == lengthSq([i \in 1..3 |-> w[i] - v[i]])

\* The corners are displaced by more than the centres of the faces.
cornersMoveMore(mesh) ==
  \A c \in corners(DOMAIN headVertices(mesh)) :
    \A f \in faceCentres(DOMAIN headVertices(mesh)) :
      displacedSq(c, headVertices(mesh)[c]) > displacedSq(f, headVertices(mesh)[f])

\* C23 as stated: every vertex of the square head is nearer to the origin
\* than the vertex of the box it was made from, and the corners are displaced
\* by more than the centres of the faces.
EveryVertexNearer ==
  currentConfig.headShape = "square" =>
    /\ \A v \in DOMAIN headVertices(avatarGroup[1]) :
         lengthSq(headVertices(avatarGroup[1])[v]) < lengthSq(v)
    /\ cornersMoveMore(avatarGroup[1])

\* C23: every vertex of the square head has moved towards the sphere of
\* radius 1: a vertex of the box farther than 1 from the origin (the corners
\* and the middles of the edges) is nearer to it than before and still
\* outside the sphere, a vertex nearer than 1 (the centres of the faces) is
\* farther from it than before and still inside; and the corners are
\* displaced by more than the centres of the faces.
VerticesTowardsUnitSphere ==
  currentConfig.headShape = "square" =>
    /\ \A v \in DOMAIN headVertices(avatarGroup[1]) :
         LET w == headVertices(avatarGroup[1])[v]
         IN IF lengthSq(v) > 1000000
            THEN lengthSq(w) < lengthSq(v) /\ lengthSq(w) > 1000000
            ELSE lengthSq(w) > lengthSq(v) /\ lengthSq(w) < 1000000
    /\ faceCentres(DOMAIN headVertices(avatarGroup[1]))
         = {v \in DOMAIN headVertices(avatarGroup[1]) : lengthSq(v) < 1000000}
    /\ cornersMoveMore(avatarGroup[1])

\* A load has rebuilt the avatar with the square head: the box of 26 vertex
\* positions, inflated by 0.15.
SquareHeadRebuilt ==
  /\ loadReturn.result = Success
  /\ currentConfig.headShape = "square"
  /\ avatarGroup[1].inflate = 150
  /\ Cardinality(DOMAIN headVertices(avatarGroup[1])) = 26
  /\ headVertices(avatarGroup[1])[<<800, 0, 0>>] = <<830, 0, 0>>

\* The places among the children of avatarGroup of the parts that take
\* field f as input; the blush, when there is one, is the seventh child.
partsOf(f) ==
  CASE f = "headShape" -> {1}
    [] f = "headColor" -> {1, 3}
    [] f = "hairStyle" -> {2}
    [] f = "hairColor" -> {2, 5}
    [] f = "eyeStyle" -> {4}
    [] f = "eyeColor" -> {4}
    [] f = "eyebrowStyle" -> {5}
    [] f = "noseStyle" -> {3}
    [] f = "mouthStyle" -> {6}
    [] f = "hasBlush" -> {7}

\* The fields in which two configurations differ.
changedFields(c, d) == {f \in FieldNames : c[f] # d[f]}

\* Every mesh of the nose has the colour of the head, scaled by 0.9.
noseDarkened(children) ==
  \A i \in 1..Len(children[3].children) :
    /\ children[3].children[i].mat.hex = children[1].mat.hex
    /\ children[3].children[i].mat.mul * 1000 = children[1].mat.mul * 900

\* C24: a click that changes fields of the live configuration leaves every
\* child of avatarGroup that takes none of them as input as it was: the head
\* colour reaches the head and the nose only, the hair colour the hair and
\* the eyebrows only, the eye colour the eyes only, a style its own part
\* only, hasBlush the blush only; and the nose has the colour of the head
\* darkened by 0.9.
EditChangesItsPartsOnly ==
  [][clicks' # clicks /\ currentConfig' # currentConfig
       => /\ \A i \in 1..7 :
               i \notin UNION {partsOf(f) : f \in changedFields(currentConfig, currentConfig')}
                 => /\ i \in DOMAIN avatarGroup' <=> i \in DOMAIN avatarGroup
                    /\ i \in DOMAIN avatarGroup => avatarGroup'[i] = avatarGroup[i]
          /\ noseDarkened(avatarGroup')]_vars

\* The second swatch of the head colours was clicked: the head and the nose
\* have the new colour, the nose darkened, and the other parts are those of
\* the default configuration.
HeadColorEdited ==
  /\ currentConfig = [DefaultConfig EXCEPT !["headColor"] = Swatches("headColor")[2]]
  /\ avatarGroup[1].mat.hex = Swatches("headColor")[2]
  /\ avatarGroup[3].children # <<>>
  /\ noseDarkened(avatarGroup)
  /\ \A i \in {2, 4, 5, 6, 7} : avatarGroup[i] = avatarParts(DefaultConfig)[i]

\* C25: a step of saveAvatarToBluesky (its entry, the answer of putRecord,
\* the answer of createRecord) leaves the live configuration and the
\* children of avatarGroup as they are, whatever the answer.
SaveKeepsConfigAndAvatar ==
  [][saveCall' # saveCall \/ saveReturn' # saveReturn
       => currentConfig' = currentConfig /\ avatarGroup' = avatarGroup]_vars

\* A save of the sample configuration has failed in createRecord, after
\* putRecord had failed: the configuration and the avatar are still those of
\* the sample configuration.
SaveFailedInCreate ==
  /\ saveReturn = Return("network", "Failed to fetch")
  /\ saveCall = IdleSave
  /\ currentConfig = SampleConfig
  /\ avatarGroup = avatarParts(SampleConfig)

\* C26: in the editor, a step taken while logged out that is not a login
\* changes the live configuration only if it is a click on a control, and
\* changes the store only if it is another client's write: no load and no
\* save takes effect after logout.
NoPersistenceAfterLogout ==
  [][~isLoggedIn /\ ~isLoggedIn'
       => /\ currentConfig' # currentConfig => clicks' # clicks
          /\ store' # store => saveCall' = saveCall]_vars

\* C27: in the world, while isLoggedIn is false the posts list is empty and
\* no post mesh is in the scene.
NoPostsWhileLoggedOut ==
  app = "world" /\ ~worldLoggedIn => posts = <<>> /\ sceneMeshes = {}

\* C28: in the world, the post meshes in the scene are the meshes of the
\* entries of the posts list, no more and no fewer.
SceneHoldsThePosts ==
  sceneMeshes = PostMeshes(posts)

\* Two fetchPosts calls overlapped and a logout came between their answers:
\* the second batch of meshes replaced the first and is all the scene holds.
SecondBatchAfterLogout ==
  /\ app = "world"
  /\ ~worldLoggedIn
  /\ meshCount = 2
  /\ posts # <<>>
  /\ sceneMeshes = {<<2, i>> : i \in 1..Len(posts)}

\* C29: in the world, while isLoggedIn is true the session is in local
\* storage: from the login (or the resumed session) until logout nothing
\* removes it.
SessionStoredWhileLoggedIn ==
  app = "world" /\ worldLoggedIn => localStorage # Undefined

\* C30: the two pages read the same collection and record key, and the
\* configuration either page has after its load returned the record is the
\* one the decoder of the other page gives for that record.
SameDecodingInBothPages ==
  /\ WorldCollection = AVATAR_COLLECTION
  /\ WorldRkey = AVATAR_RKEY
  /\ app = "editor" /\ loadReturn.result = Success
       => currentConfig = worldLoadedConfig(store[1])
  /\ app = "world" /\ worldLoadCause = "ok"
       => playerAvatar = loadedConfig(store[1])

\* The world has loaded a record whose head colour is the empty string and
\* whose blush is false: it has the default head colour and no blush.
WorldDecodedEmptyColor ==
  /\ app = "world"
  /\ worldLoadCause = "ok"
  /\ Get(store[1], "headColor") = ""
  /\ Get(store[1], "hasBlush") = JSFalse
  /\ playerAvatar.headColor = "#ffccaa"
  /\ playerAvatar.hasBlush = JSFalse

====
